---- MODULE Spec2Model ----
(***************************************************************************)
(* HTTP/JSON gateway to a Modbus RTU charging-station controller           *)
(* (src/main.py).  The model follows the module top-down: the shared       *)
(* instrument, the payload schemas, the five adapter helpers, and the nine *)
(* route handlers.  A handler is a coroutine run by the single-threaded    *)
(* event loop; each of its blocking instrument calls is one step.          *)
(***************************************************************************)
EXTENDS Integers, Sequences, FiniteSets, TLC

VARIABLES
    instrument,   \* the module-level minimalmodbus.Instrument and its serial settings
    dev,          \* holding registers of the slave: address -> 16-bit word
    accepted,     \* number of connections the server has accepted
    started,      \* number of requests the loop has parsed and run (or rejected)
    tasks,        \* per request, in the order the loop ran them: the handler invocation
    wire,         \* owners of the exchanges seen by the slave, consecutive repeats merged
    lastFailed    \* the request answered last ended in a failed instrument call

vars == <<instrument, dev, accepted, started, tasks, wire, lastFailed>>

\* Number of HTTP connections accepted in one run.
MaxRequests == 2

Conns == 1..MaxRequests

(***************************************************************************)
(* The device session                                                      *)
(***************************************************************************)
InstrumentInit ==
    [port     |-> "/dev/serial/by-id/usb-1a86_USB_Serial-if00-port0",
     address  |-> 50,
     baudrate |-> 57600,
     bytesize |-> 8,
     parity   |-> "N",
     stopbits |-> 2,
     timeout  |-> 1,
     is_open  |-> TRUE]

(***************************************************************************)
(* The slave's register file.  Only the registers the handlers touch.      *)
(***************************************************************************)
Word == 2^16

Addrs ==
    (\H0000..\H0012) \cup (\H0100..\H0105) \cup (\H0300..\H0307) \cup {\H030A}
    \cup (\H0500..\H0513) \cup (\H0B00..\H0B05)
    \cup {\H0D00, \H0D03, \H0D04, \H0D05, \H0D06} \cup (\H0E00..\H0E01)

\* One device image: packed ASCII "FW-1.2.3        " / "SN-0001234567890",
\* floats 0.0 / 16.0 / 32.0 / 230.0, status block 3,1,0,1,123456.
DevInit ==
    [a \in Addrs |->
        CASE a = \H0000 -> 1
          [] a = \H0001 -> \H4657  [] a = \H0002 -> \H2D31
          [] a = \H0003 -> \H2E32  [] a = \H0004 -> \H2E33
          [] a \in \H0005..\H0008 -> \H2020
          [] a = \H0009 -> \H534E  [] a = \H000A -> \H2D30
          [] a = \H000B -> \H3030  [] a = \H000C -> \H3132
          [] a = \H000D -> \H3334  [] a = \H000E -> \H3536
          [] a = \H000F -> \H3738  [] a = \H0010 -> \H3930
          [] a = \H0011 -> 2       [] a = \H0012 -> 7
          [] a = \H0100 -> 3       [] a = \H0101 -> 1
          [] a = \H0102 -> 0       [] a = \H0103 -> 1
          [] a = \H0104 -> 1       [] a = \H0105 -> \HE240
          [] a \in {\H0300, \H0302, \H0304} -> \H4200
          [] a = \H0306 -> \H4180
          [] a = \H030A -> 1
          [] a \in {\H0506, \H0508, \H050A} -> \H4366
          [] a = \H0B00 -> \H4180
          [] a = \H0B05 -> 90
          [] a = \H0D03 -> 1
          [] a = \H0E01 -> 4
          [] OTHER -> 0]

(***************************************************************************)
(* minimalmodbus value codecs, as the calls in main.py use them            *)
(* (big-endian register order, unsigned, no decimals).                     *)
(***************************************************************************)
RECURSIVE Log2(_)
Log2(x) == IF x < 2 THEN 0 ELSE 1 + Log2(x \div 2)

\* unsigned long from two consecutive registers
DecodeLong(mem, a) == mem[a] * Word + mem[a + 1]

\* IEEE-754 single bits of a non-negative whole number, round-half-even
Float32Bits(x) ==
    IF x = 0 THEN 0
    ELSE LET e     == Log2(x)
             shift == e - 23
             q     == IF shift <= 0 THEN x * 2^(0 - shift) ELSE x \div 2^shift
             r     == IF shift <= 0 THEN 0 ELSE x % 2^shift
             half  == IF shift <= 0 THEN 1 ELSE 2^(shift - 1)
             up    == r > half \/ (r = half /\ q % 2 = 1)
             m     == IF up THEN q + 1 ELSE q
             e2    == IF m = 2^24 THEN e + 1 ELSE e
             m2    == IF m = 2^24 THEN 2^23 ELSE m
         IN  (e2 + 127) * 2^23 + (m2 - 2^23)

\* value of IEEE-754 single bits that encode a non-negative whole number
Float32Value(bits) ==
    IF bits = 0 THEN 0
    ELSE LET e == (bits \div 2^23) - 127
             m == 2^23 + (bits % 2^23)
         IN  IF e >= 23 THEN m * 2^(e - 23) ELSE m \div 2^(23 - e)

DecodeFloat(mem, a) == Float32Value(DecodeLong(mem, a))

\* packed ASCII: each register is two characters, high byte first
RECURSIVE DecodeString(_, _, _)
DecodeString(mem, a, n) ==
    IF n = 0 THEN <<>>
    ELSE <<mem[a] \div 256, mem[a] % 256>> \o DecodeString(mem, a + 1, n - 1)

StoreWord(mem, a, v) == [mem EXCEPT ![a] = v]

StoreFloat(mem, a, v) ==
    LET bits == Float32Bits(v)
    IN  [mem EXCEPT ![a] = bits \div Word, ![a + 1] = bits % Word]

(***************************************************************************)
(* Request payloads (Configuration, Functions).  A JSON member is absent,  *)
(* a number, or something that is not a number.                            *)
(***************************************************************************)
Absent == [tag |-> "absent", val |-> 0]
Num(v) == [tag |-> "num", val |-> v]
NotANumber == [tag |-> "str", val |-> 0]

\* `x is not None`
Present(x) == x.tag # "absent"

ConfigurationFields == <<"external_charging_current_limitation">>

FunctionsFields ==
    <<"master_heartbeat", "solar_charge_mode", "req_phase_usage",
      "charging_release", "lockmode">>

Range(s) == {s[i] : i \in DOMAIN s}

\* pydantic: every declared member is Optional[int] / Optional[float], no
\* further constraint, so a body passes iff each member is absent or a number
Validates(fields, body) == \A f \in Range(fields) : body[f].tag \in {"absent", "num"}

(***************************************************************************)
(* Faults of one instrument call                                           *)
(***************************************************************************)
\* what the serial exchange of a call can end in
FaultKinds ==
    {"NoResponseError", "InvalidResponseError", "IllegalRequestError",
     "SerialException"}

Outcomes == {"none"} \cup FaultKinds

\* subclasses of minimalmodbus.ModbusException
ModbusException ==
    {"NoResponseError", "InvalidResponseError", "IllegalRequestError",
     "SlaveDeviceBusyError", "NegativeAcknowledgeError", "LocalEchoError"}

\* str(e)
Str(kind) ==
    CASE kind = "NoResponseError"      -> "No communication with the instrument (no answer)"
      [] kind = "InvalidResponseError" -> "Checksum error in rtu mode"
      [] kind = "IllegalRequestError"  -> "Slave reported illegal data address"
      [] kind = "SerialException"      -> "device reports readiness to read but returned no data"
      [] kind = "ValueError"           -> "The input value is too large"
      [] OTHER                         -> kind

\* a call on a port that is no longer open cannot exchange anything
PortFault(instr, fault) == IF instr.is_open THEN fault ELSE "SerialException"

NoExc == [class |-> "none", status_code |-> 0, detail |-> ""]

HTTPException(status_code, detail) ==
    [class |-> "HTTPException", status_code |-> status_code, detail |-> detail]

\* try: ... except minimalmodbus.ModbusException as e: raise HTTPException(500, str(e))
\* anything else propagates as it is
Except(kind) ==
    IF kind \in ModbusException
    THEN HTTPException(500, Str(kind))
    ELSE [class |-> kind, status_code |-> 0, detail |-> Str(kind)]

\* variant: the failure path closes the port
ExceptClauseCloses(instr) == [instr EXCEPT !.is_open = FALSE]

\* the except clauses leave the instrument as it is
ExceptClause(instr) == instr

Call(fn, address, arg) == [fn |-> fn, address |-> address, arg |-> arg]

Returned(call, value) == [call |-> call, ok |-> TRUE, value |-> value, exc |-> NoExc]

Raised(call, kind) == [call |-> call, ok |-> FALSE, value |-> 0, exc |-> Except(kind)]

(***************************************************************************)
(* The adapter helpers.  mem is the slave's register file at the call,     *)
(* fault the outcome of the exchange.                                      *)
(***************************************************************************)
\* variant: a failed read is swallowed and a default returned
read_registerSwallows(mem, address, number_of_registers, fault) ==
    IF number_of_registers = 1
    THEN Returned(Call("read_register", address, 1),
                  IF fault = "none" THEN mem[address] ELSE 0)
    ELSE Returned(Call("read_long", address, number_of_registers),
                  IF fault = "none" THEN DecodeLong(mem, address) ELSE 0)

\* variant: number_of_registers is ignored
read_registerSingle(mem, address, number_of_registers, fault) ==
    LET call == Call("read_register", address, 1)
    IN  IF fault = "none" THEN Returned(call, mem[address])
        ELSE Raised(call, fault)

read_register(mem, address, number_of_registers, fault) ==
    IF number_of_registers = 1
    THEN LET call == Call("read_register", address, 1)
         IN  IF fault = "none" THEN Returned(call, mem[address])
             ELSE Raised(call, fault)
    ELSE LET call == Call("read_long", address, number_of_registers)
         IN  IF fault = "none" THEN Returned(call, DecodeLong(mem, address))
             ELSE Raised(call, fault)

\* variant: length counts characters, two to a register
read_stringCharacters(mem, address, length, fault) ==
    LET call == Call("read_string", address, (length + 1) \div 2)
    IN  IF fault = "none"
        THEN Returned(call, DecodeString(mem, address, (length + 1) \div 2))
        ELSE Raised(call, fault)

\* instrument.read_string(address, length): the second positional parameter
\* of Instrument.read_string is number_of_registers
read_string(mem, address, length, fault) ==
    LET call == Call("read_string", address, length)
    IN  IF fault = "none" THEN Returned(call, DecodeString(mem, address, length))
        ELSE Raised(call, fault)

read_float(mem, address, fault) ==
    LET call == Call("read_float", address, 2)
    IN  IF fault = "none" THEN Returned(call, DecodeFloat(mem, address))
        ELSE Raised(call, fault)

\* variant: a failed write is swallowed
write_registerSwallows(address, value, fault) ==
    Returned(Call("write_register", address, value), 0)

\* Instrument.write_register checks 0 <= value <= 65535 before it sends anything
write_register(address, value, fault) ==
    LET call == Call("write_register", address, value)
    IN  IF value < 0 \/ value >= Word THEN Raised(call, "ValueError")
        ELSE IF fault = "none" THEN Returned(call, 0)
        ELSE Raised(call, fault)

write_float(address, value, fault) ==
    LET call == Call("write_float", address, value)
    IN  IF fault = "none" THEN Returned(call, 0)
        ELSE Raised(call, fault)

(***************************************************************************)
(* The route handlers: the adapter calls of each, in source order.         *)
(***************************************************************************)
R(field, fn, address, arg) ==
    [field |-> field, fn |-> fn, address |-> address, arg |-> arg]

get_version_info ==
    <<R("layout_version", "read_register", \H0000, 1),
      R("firmware_version", "read_string", \H0001, 8),
      R("serial_number", "read_string", \H0009, 8),
      R("hw_version", "read_register", \H0011, 1),
      R("product_id", "read_register", \H0012, 1)>>

get_status ==
    <<R("evse_state", "read_register", \H0100, 1),
      R("external_charging_release_state", "read_register", \H0101, 1),
      R("external_downgrading_state", "read_register", \H0102, 1),
      R("phase_rotation", "read_register", \H0103, 1),
      R("bootup_token", "read_register", \H0104, 2)>>

get_configuration ==
    <<R("external_downgrading_current", "read_float", \H0300, 0),
      R("external_charging_current_limitation", "read_float", \H0302, 0),
      R("max_current_evse_group", "read_float", \H0304, 0),
      R("max_current_evse", "read_float", \H0306, 0),
      R("selective_phase_switching_option", "read_register", \H030A, 1)>>

set_configuration ==
    <<R("external_charging_current_limitation", "write_float", \H0302, 0)>>

get_output_measurements ==
    <<R("current_l1", "read_float", \H0500, 0),
      R("current_l2", "read_float", \H0502, 0),
      R("current_l3", "read_float", \H0504, 0),
      R("voltage_l1", "read_float", \H0506, 0),
      R("voltage_l2", "read_float", \H0508, 0),
      R("voltage_l3", "read_float", \H050A, 0),
      R("power_l1", "read_float", \H050C, 0),
      R("power_l2", "read_float", \H050E, 0),
      R("power_l3", "read_float", \H0510, 0),
      R("power_overall", "read_float", \H0512, 0)>>

get_charging_session ==
    <<R("max_session_charging_current", "read_float", \H0B00, 0),
      R("session_charging_energy", "read_float", \H0B02, 0),
      R("session_duration", "read_register", \H0B04, 2)>>

get_functions ==
    <<R("solar_charge_mode", "read_register", \H0D03, 1),
      R("req_phase_usage", "read_register", \H0D04, 1),
      R("charging_release", "read_register", \H0D05, 1),
      R("lockmode", "read_register", \H0D06, 1)>>

\* variant: lockmode is written before charging_release
set_functionsReordered ==
    <<R("master_heartbeat", "write_register", \H0D00, 0),
      R("solar_charge_mode", "write_register", \H0D03, 0),
      R("req_phase_usage", "write_register", \H0D04, 0),
      R("lockmode", "write_register", \H0D06, 0),
      R("charging_release", "write_register", \H0D05, 0)>>

set_functions ==
    <<R("master_heartbeat", "write_register", \H0D00, 0),
      R("solar_charge_mode", "write_register", \H0D03, 0),
      R("req_phase_usage", "write_register", \H0D04, 0),
      R("charging_release", "write_register", \H0D05, 0),
      R("lockmode", "write_register", \H0D06, 0)>>

get_diagnostic ==
    <<R("last_error_code", "read_register", \H0E00, 2)>>

ReadRoutes ==
    {"GET /api/version_info", "GET /api/status", "GET /api/configuration",
     "GET /api/output_measurements", "GET /api/charging_session",
     "GET /api/functions", "GET /api/diagnostic"}

WriteRoutes == {"POST /api/configuration", "POST /api/functions"}

Routes == ReadRoutes \cup WriteRoutes

\* @app.get / @app.post: the handler bound to each route
Handler(route) ==
    CASE route = "GET /api/version_info"        -> get_version_info
      [] route = "GET /api/status"              -> get_status
      [] route = "GET /api/configuration"       -> get_configuration
      [] route = "POST /api/configuration"      -> set_configuration
      [] route = "GET /api/output_measurements" -> get_output_measurements
      [] route = "GET /api/charging_session"    -> get_charging_session
      [] route = "GET /api/functions"           -> get_functions
      [] route = "POST /api/functions"          -> set_functions
      [] route = "GET /api/diagnostic"          -> get_diagnostic

\* the schema of the route's body parameter
Schema(route) ==
    CASE route = "POST /api/configuration" -> ConfigurationFields
      [] route = "POST /api/functions"     -> FunctionsFields
      [] OTHER                             -> <<>>

\* return {"status": ...}
Acknowledgment(route) ==
    IF route = "POST /api/configuration" THEN "Configuration updated"
    ELSE "Functions updated"

AdapterRead(stmt, mem, fault) ==
    CASE stmt.fn = "read_register" -> read_register(mem, stmt.address, stmt.arg, fault)
      [] stmt.fn = "read_string"   -> read_string(mem, stmt.address, stmt.arg, fault)
      [] stmt.fn = "read_float"    -> read_float(mem, stmt.address, fault)

AdapterWrite(stmt, value, fault) ==
    CASE stmt.fn = "write_register" -> write_register(stmt.address, value, fault)
      [] stmt.fn = "write_float"    -> write_float(stmt.address, value, fault)

\* what the slave holds after it has executed the write
Stored(stmt, mem, value) ==
    IF stmt.fn = "write_float" THEN StoreFloat(mem, stmt.address, value)
    ELSE StoreWord(mem, stmt.address, value)

\* variant: the presence tests are missing
NextWriteUnguarded(stmts, body, pc) == IF pc <= Len(stmts) THEN pc ELSE 0

\* `if x is not None:` chain: index of the next write the handler makes from
\* statement pc on, 0 when none is left
NextWrite(stmts, body, pc) ==
    LET left == {k \in pc..Len(stmts) : Present(body[stmts[k].field])}
    IN  IF left = {} THEN 0 ELSE CHOOSE k \in left : \A j \in left : k <= j

(***************************************************************************)
(* Responses as the framework builds them                                  *)
(***************************************************************************)
NoResponse == [status |-> 0, detail |-> "", text |-> "", content |-> <<>>]

\* the handler returned a dict
Response200(content) == [status |-> 200, detail |-> "", text |-> "", content |-> content]

\* request validation failed: the handler is never called
Response422 ==
    [status |-> 422, detail |-> "value is not a valid number", text |-> "", content |-> <<>>]

\* an HTTPException becomes {"detail": ...} with its status code; any other
\* exception leaving the handler becomes the plain 500 of the server
ResponseRaised(exc) ==
    IF exc.class = "HTTPException"
    THEN [status |-> exc.status_code, detail |-> exc.detail, text |-> "", content |-> <<>>]
    ELSE [status |-> 500, detail |-> "", text |-> "Internal Server Error", content |-> <<>>]

(***************************************************************************)
(* Request bodies the clients send                                         *)
(***************************************************************************)
\* values the docstring of Functions names as meaningful
DeclaredValue(f) ==
    CASE f = "master_heartbeat"  -> \H55AA
      [] f = "solar_charge_mode" -> 2
      [] f = "req_phase_usage"   -> 3
      [] f = "charging_release"  -> 1
      [] f = "lockmode"          -> 1

NoFunctions == [f \in Range(FunctionsFields) |-> Absent]

\* every subset of members present, each with a declared value
SubsetBodies ==
    {[f \in Range(FunctionsFields) |-> IF f \in S THEN Num(DeclaredValue(f)) ELSE Absent] :
        S \in SUBSET Range(FunctionsFields)}

\* members outside the documented values, outside a register, or not a number
OddBodies ==
    {[NoFunctions EXCEPT !["lockmode"] = Num(2)],
     [NoFunctions EXCEPT !["master_heartbeat"] = Num(\H55AA), !["lockmode"] = Num(Word)],
     [NoFunctions EXCEPT !["charging_release"] = NotANumber],
     [NoFunctions EXCEPT !["master_heartbeat"] = Num(\H55AA), !["charging_release"] = NotANumber]}

ConfigurationBodies ==
    {[f \in Range(ConfigurationFields) |-> x] :
        x \in {Absent, Num(16), NotANumber}}

NoBody == [f \in {} |-> Absent]

Bodies(route) ==
    CASE route = "POST /api/configuration" -> ConfigurationBodies
      [] route = "POST /api/functions"     -> SubsetBodies \cup OddBodies
      [] OTHER                             -> {NoBody}

(***************************************************************************)
(* State                                                                   *)
(***************************************************************************)
NoTask ==
    [state |-> "none", route |-> "", body |-> NoBody, pc |-> 0, issued |-> <<>>,
     acc |-> <<>>, fault |-> "none", faultAt |-> 0, response |-> NoResponse,
     snapshot |-> DevInit, afterFailure |-> FALSE]

\* variant: handlers run in worker threads, the loop never waits for one
LoopIdleThreaded == TRUE

\* handlers are `async def` and never await: the loop runs one to its end,
\* and the response out, before it looks at another request
LoopIdle == \A i \in Conns : tasks[i].state = "none"

Own(w, c) == IF w # <<>> /\ w[Len(w)] = c THEN w ELSE Append(w, c)

Init ==
    /\ instrument = InstrumentInit
    /\ dev = DevInit
    /\ accepted = 0
    /\ started = 0
    /\ tasks = [i \in Conns |-> NoTask]
    /\ wire = <<>>
    /\ lastFailed = FALSE

\* the server accepts a connection; this needs no turn of the loop
Accept ==
    /\ accepted < MaxRequests
    /\ accepted' = accepted + 1
    /\ UNCHANGED <<instrument, dev, started, tasks, wire, lastFailed>>

\* the loop parses a request whose body does not fit the schema: 422
Reject(route, body) ==
    /\ started < accepted
    /\ LoopIdle
    /\ ~Validates(Schema(route), body)
    /\ started' = started + 1
    /\ tasks' = [tasks EXCEPT ![started + 1] =
                    [NoTask EXCEPT !.state = "done", !.route = route,
                                   !.body = body, !.pc = 1,
                                   !.response = Response422,
                                   !.snapshot = dev,
                                   !.afterFailure = lastFailed]]
    /\ UNCHANGED <<instrument, dev, accepted, wire, lastFailed>>

\* the loop parses a valid request and calls the handler
Dispatch(route, body) ==
    /\ started < accepted
    /\ LoopIdle
    /\ Validates(Schema(route), body)
    /\ started' = started + 1
    /\ tasks' = [tasks EXCEPT ![started + 1] =
                    [NoTask EXCEPT !.state = "running", !.route = route,
                                   !.body = body, !.pc = 1,
                                   !.snapshot = dev,
                                   !.afterFailure = lastFailed]]
    /\ UNCHANGED <<instrument, dev, accepted, wire, lastFailed>>

\* a read handler evaluates the next entry of its dict literal
ReadStep(c, fault) ==
    LET t    == tasks[c]
        stmt == Handler(t.route)[t.pc]
        f    == PortFault(instrument, fault)
        r    == AdapterRead(stmt, dev, f)
        log  == Append(t.issued, r.call)
        at   == IF f # "none" /\ t.faultAt = 0 THEN Len(log) ELSE t.faultAt
        why  == IF f # "none" /\ t.faultAt = 0 THEN f ELSE t.fault
    IN  /\ t.state = "running"
        /\ t.route \in ReadRoutes
        /\ t.pc <= Len(Handler(t.route))
        /\ tasks' = [tasks EXCEPT ![c] =
              IF r.ok
              THEN [t EXCEPT !.pc = t.pc + 1, !.issued = log,
                             !.acc = Append(t.acc, [field |-> stmt.field, value |-> r.value]),
                             !.faultAt = at, !.fault = why]
              ELSE [t EXCEPT !.state = "done", !.issued = log,
                             !.faultAt = at, !.fault = why,
                             !.response = ResponseRaised(r.exc)]]
        /\ wire' = IF instrument.is_open THEN Own(wire, c) ELSE wire
        /\ instrument' = IF r.ok THEN instrument ELSE ExceptClause(instrument)
        /\ UNCHANGED <<dev, accepted, started, lastFailed>>

\* a write handler reaches its next `if ... is not None:` that holds.  A
\* request whose answer is lost or garbled may still have been executed.
WriteStep(c, fault, executed) ==
    LET t     == tasks[c]
        k     == NextWrite(Handler(t.route), t.body, t.pc)
        stmt  == Handler(t.route)[k]
        value == t.body[stmt.field].val
        f     == PortFault(instrument, fault)
        r     == AdapterWrite(stmt, value, f)
        sent  == instrument.is_open /\ r.exc.class # "ValueError"
        log   == Append(t.issued, r.call)
        bad   == f # "none" \/ ~r.ok
        kind  == IF r.ok \/ r.exc.class = "HTTPException" THEN f ELSE r.exc.class
        at    == IF bad /\ t.faultAt = 0 THEN Len(log) ELSE t.faultAt
        why   == IF bad /\ t.faultAt = 0 THEN kind ELSE t.fault
    IN  /\ t.state = "running"
        /\ t.route \in WriteRoutes
        /\ k # 0
        /\ executed => sent /\ f \in {"none", "NoResponseError", "InvalidResponseError"}
        /\ f = "none" /\ sent => executed
        /\ tasks' = [tasks EXCEPT ![c] =
              IF r.ok
              THEN [t EXCEPT !.pc = k + 1, !.issued = log,
                             !.faultAt = at, !.fault = why]
              ELSE [t EXCEPT !.state = "done", !.pc = k, !.issued = log,
                             !.faultAt = at, !.fault = why,
                             !.response = ResponseRaised(r.exc)]]
        /\ dev' = IF executed THEN Stored(stmt, dev, value) ELSE dev
        /\ wire' = IF sent THEN Own(wire, c) ELSE wire
        /\ instrument' = IF r.ok THEN instrument ELSE ExceptClause(instrument)
        /\ UNCHANGED <<accepted, started, lastFailed>>

\* the handler reaches its return statement
Return(c) ==
    LET t == tasks[c]
    IN  /\ t.state = "running"
        /\ IF t.route \in ReadRoutes
           THEN /\ t.pc > Len(Handler(t.route))
                /\ tasks' = [tasks EXCEPT ![c] =
                      [t EXCEPT !.state = "done", !.response = Response200(t.acc)]]
           ELSE /\ NextWrite(Handler(t.route), t.body, t.pc) = 0
                /\ tasks' = [tasks EXCEPT ![c] =
                      [t EXCEPT !.state = "done",
                                !.response = Response200(
                                    <<[field |-> "status", value |-> Acknowledgment(t.route)]>>)]]
        /\ UNCHANGED <<instrument, dev, accepted, started, wire, lastFailed>>

\* the framework sends the response of a finished handler
Deliver(c) ==
    /\ tasks[c].state = "done"
    /\ tasks' = [tasks EXCEPT ![c] = NoTask]
    /\ lastFailed' = (tasks[c].faultAt # 0)
    /\ UNCHANGED <<instrument, dev, accepted, started, wire>>

Next ==
    \/ Accept
    \/ \E route \in Routes : \E body \in Bodies(route) : Reject(route, body)
    \/ \E route \in Routes : \E body \in Bodies(route) : Dispatch(route, body)
    \/ \E c \in Conns, fault \in Outcomes : ReadStep(c, fault)
    \/ \E c \in Conns, fault \in Outcomes, executed \in BOOLEAN : WriteStep(c, fault, executed)
    \/ \E c \in Conns : Return(c)
    \/ \E c \in Conns : Deliver(c)

Spec == Init /\ [][Next]_vars

(***************************************************************************)
(* Properties                                                              *)
(***************************************************************************)
ReadFns == {"read_register", "read_long", "read_float", "read_string"}

AllAbsent(body) == \A f \in DOMAIN body : body[f].tag = "absent"

\* C1: in every read handler, once the N-th instrument read has failed the
\* handler is over: it has issued exactly N reads, the response is a 500 and
\* carries none of the values read before the failure.
C1_ReadFailureAborts ==
    \A c \in Conns :
        LET t == tasks[c]
        IN  (t.route \in ReadRoutes /\ t.faultAt # 0) =>
                /\ t.state = "done"
                /\ Len(t.issued) = t.faultAt
                /\ \A i \in DOMAIN t.issued : t.issued[i].fn \in ReadFns
                /\ t.response.status = 500
                /\ t.response.content = <<>>

\* a status request whose third read failed after two values had been read
C1_Witness ==
    \E c \in Conns :
        /\ tasks[c].route = "GET /api/status"
        /\ tasks[c].faultAt = 3
        /\ Len(tasks[c].acc) = 2
        /\ tasks[c].state = "done"

\* the writes the payload asks for: one per present member, in declared order
RECURSIVE WritesFor(_, _)
WritesFor(decl, body) ==
    IF decl = <<>> THEN <<>>
    ELSE LET d == Head(decl)
         IN  (IF body[d[1]].tag # "absent"
              THEN <<[fn |-> d[2], address |-> d[3], arg |-> body[d[1]].val]>>
              ELSE <<>>)
             \o WritesFor(Tail(decl), body)

DeclaredWrites(route) ==
    IF route = "POST /api/configuration"
    THEN << <<"external_charging_current_limitation", "write_float", \H0302>> >>
    ELSE << <<"master_heartbeat", "write_register", \H0D00>>,
            <<"solar_charge_mode", "write_register", \H0D03>>,
            <<"req_phase_usage", "write_register", \H0D04>>,
            <<"charging_release", "write_register", \H0D05>>,
            <<"lockmode", "write_register", \H0D06>> >>

\* C2: a write handler that ends without a failed write has issued exactly
\* one write per present member and none for an absent one, to the member's
\* address, with the member's value, in the declared order.
C2_OneWritePerPresentField ==
    \A c \in Conns :
        LET t == tasks[c]
        IN  (t.route \in WriteRoutes /\ t.state = "done" /\ t.faultAt = 0
             /\ t.response.status # 422) =>
                t.issued = WritesFor(DeclaredWrites(t.route), t.body)

\* a functions update with all five members present, answered 200
C2_Witness ==
    \E c \in Conns :
        /\ tasks[c].route = "POST /api/functions"
        /\ tasks[c].state = "done"
        /\ tasks[c].response.status = 200
        /\ Len(tasks[c].issued) = 5
        /\ \A f \in DOMAIN tasks[c].body : Present(tasks[c].body[f])

\* C3: a write handler given a payload with every member absent issues no
\* instrument call, leaves the register file as it found it, and answers
\* with its acknowledgment.
C3_AllAbsentIsNoOp ==
    \A c \in Conns :
        LET t == tasks[c]
        IN  (t.route \in WriteRoutes /\ AllAbsent(t.body)) =>
                /\ t.issued = <<>>
                /\ dev = t.snapshot
                /\ t.faultAt = 0
                /\ t.state = "done" =>
                      /\ t.response.status = 200
                      /\ t.response.content =
                            <<[field |-> "status",
                               value |-> IF t.route = "POST /api/configuration"
                                         THEN "Configuration updated"
                                         ELSE "Functions updated"]>>

\* an empty functions update after an earlier request changed the device
C3_Witness ==
    \E c \in Conns :
        /\ tasks[c].route = "POST /api/functions"
        /\ AllAbsent(tasks[c].body)
        /\ tasks[c].state = "done"
        /\ tasks[c].response.status = 200
        /\ dev # DevInit

\* C4: when the k-th write of a functions update fails, the handler is over
\* with a 500 and no acknowledgment; it issued the writes of the first k
\* present members only, the earlier k-1 values are on the device, and the
\* registers of the later members are as they were.
C4_PartialWriteStays ==
    \A c \in Conns :
        LET t     == tasks[c]
            all   == WritesFor(DeclaredWrites(t.route), t.body)
            k     == t.faultAt
        IN  (t.route = "POST /api/functions" /\ k # 0) =>
                /\ t.state = "done"
                /\ t.issued = SubSeq(all, 1, k)
                /\ \A j \in 1..(k - 1) : dev[all[j].address] = all[j].arg
                /\ \A j \in (k + 1)..Len(all) :
                      dev[all[j].address] = t.snapshot[all[j].address]
                /\ t.response.status = 500
                /\ t.response.content = <<>>

\* the third of five writes failed: two values stay, two were never written
C4_Witness ==
    \E c \in Conns :
        /\ tasks[c].route = "POST /api/functions"
        /\ tasks[c].state = "done"
        /\ tasks[c].faultAt = 3
        /\ \A f \in DOMAIN tasks[c].body : Present(tasks[c].body[f])
        /\ dev[\H0D00] = \H55AA /\ tasks[c].snapshot[\H0D00] = 0
        /\ dev[\H0D06] = 0

\* C5: the exchanges of one handler form one contiguous block on the wire,
\* and at most one handler is between its first call and its return.
C5_Serialized ==
    /\ \A i, j \in DOMAIN wire : i # j => wire[i] # wire[j]
    /\ Cardinality({c \in Conns : tasks[c].state = "running"}) <= 1

\* a second request was accepted while the first handler is in mid-sequence
C5_Witness ==
    \E c \in Conns :
        /\ tasks[c].state = "running"
        /\ Len(tasks[c].issued) >= 2
        /\ started < accepted

\* C6 (as claimed): every failed instrument call ends the request with a
\* 500 whose detail is the message of the fault.
C6_EveryFaultBecomesDetail ==
    \A c \in Conns :
        LET t == tasks[c]
        IN  (t.state = "done" /\ t.faultAt # 0) =>
                /\ t.response.status = 500
                /\ t.response.detail = Str(t.fault)

OutOfRange(body) ==
    \E f \in DOMAIN body :
        /\ Present(body[f])
        /\ \/ body[f].tag # "num"
           \/ body[f].val \notin 0..(Word - 1)
           \/ f = "solar_charge_mode" /\ body[f].val \notin 0..4
           \/ f \in {"charging_release", "lockmode"} /\ body[f].val \notin {0, 1}

\* C7 (as claimed): a functions update with a malformed or out-of-range
\* member is answered 422 and no write is invoked for it.
C7_OutOfRangeRejected ==
    \A c \in Conns :
        LET t == tasks[c]
        IN  (t.route = "POST /api/functions" /\ t.state # "none" /\ OutOfRange(t.body)) =>
                /\ t.issued = <<>>
                /\ t.state = "done" => t.response.status = 422

\* a run of the route on register file mem in which no call fails
CallsOf(route, body, mem) ==
    IF route \in ReadRoutes
    THEN [i \in DOMAIN Handler(route) |-> AdapterRead(Handler(route)[i], mem, "none").call]
    ELSE WritesFor(DeclaredWrites(route), body)

ContentOf(route, mem) ==
    IF route \in ReadRoutes
    THEN [i \in DOMAIN Handler(route) |->
            [field |-> Handler(route)[i].field,
             value |-> AdapterRead(Handler(route)[i], mem, "none").value]]
    ELSE <<[field |-> "status", value |-> Acknowledgment(route)]>>

\* C8: the instrument keeps the settings it was constructed with, and a
\* request that follows a failed one and meets no fault itself makes the
\* calls and returns the result that the device state alone determines.
C8_FailureIsLocal ==
    /\ instrument = InstrumentInit
    /\ \A c \in Conns :
          LET t == tasks[c]
          IN  (t.afterFailure /\ t.state = "done" /\ t.faultAt = 0
               /\ t.response.status # 422) =>
                  /\ t.issued = CallsOf(t.route, t.body, t.snapshot)
                  /\ t.response = Response200(ContentOf(t.route, t.snapshot))

\* a complete status read right after a request that failed
C8_Witness ==
    \E c \in Conns :
        /\ tasks[c].afterFailure
        /\ tasks[c].route = "GET /api/status"
        /\ tasks[c].state = "done"
        /\ tasks[c].response.status = 200
        /\ Len(tasks[c].issued) = 5

\* the read-only field maps: name, address, decoding
FieldMap(route) ==
    CASE route = "GET /api/version_info" ->
            << <<"layout_version", \H0000, "int">>,
               <<"firmware_version", \H0001, "string">>,
               <<"serial_number", \H0009, "string">>,
               <<"hw_version", \H0011, "int">>,
               <<"product_id", \H0012, "int">> >>
      [] route = "GET /api/status" ->
            << <<"evse_state", \H0100, "int">>,
               <<"external_charging_release_state", \H0101, "int">>,
               <<"external_downgrading_state", \H0102, "int">>,
               <<"phase_rotation", \H0103, "int">>,
               <<"bootup_token", \H0104, "long">> >>
      [] route = "GET /api/configuration" ->
            << <<"external_downgrading_current", \H0300, "float">>,
               <<"external_charging_current_limitation", \H0302, "float">>,
               <<"max_current_evse_group", \H0304, "float">>,
               <<"max_current_evse", \H0306, "float">>,
               <<"selective_phase_switching_option", \H030A, "int">> >>
      [] route = "GET /api/output_measurements" ->
            << <<"current_l1", \H0500, "float">>, <<"current_l2", \H0502, "float">>,
               <<"current_l3", \H0504, "float">>, <<"voltage_l1", \H0506, "float">>,
               <<"voltage_l2", \H0508, "float">>, <<"voltage_l3", \H050A, "float">>,
               <<"power_l1", \H050C, "float">>, <<"power_l2", \H050E, "float">>,
               <<"power_l3", \H0510, "float">>, <<"power_overall", \H0512, "float">> >>
      [] route = "GET /api/charging_session" ->
            << <<"max_session_charging_current", \H0B00, "float">>,
               <<"session_charging_energy", \H0B02, "float">>,
               <<"session_duration", \H0B04, "long">> >>
      [] route = "GET /api/functions" ->
            << <<"solar_charge_mode", \H0D03, "int">>,
               <<"req_phase_usage", \H0D04, "int">>,
               <<"charging_release", \H0D05, "int">>,
               <<"lockmode", \H0D06, "int">> >>
      [] route = "GET /api/diagnostic" ->
            << <<"last_error_code", \H0E00, "long">> >>

\* the instrument call of a decoding
CallMatches(call, entry) ==
    /\ call.address = entry[2]
    /\ CASE entry[3] = "int"    -> call.fn = "read_register" /\ call.arg = 1
         [] entry[3] = "long"   -> call.fn = "read_long" /\ call.arg = 2
         [] entry[3] = "float"  -> call.fn = "read_float" /\ call.arg = 2
         [] entry[3] = "string" -> call.fn = "read_string"

\* the value of a decoding on register file mem
ValueMatches(value, entry, mem) ==
    CASE entry[3] = "int"    -> value = mem[entry[2]]
      [] entry[3] = "long"   -> value = mem[entry[2]] * 65536 + mem[entry[2] + 1]
      [] entry[3] = "float"  -> Float32Bits(value) = mem[entry[2]] * 65536 + mem[entry[2] + 1]
      [] entry[3] = "string" ->
            \A j \in DOMAIN value :
                value[j] = IF j % 2 = 1 THEN mem[entry[2] + (j - 1) \div 2] \div 256
                           ELSE mem[entry[2] + (j - 1) \div 2] % 256

\* C9: a read handler that meets no fault issues one read per response
\* field, at the field's address and with its decoding, in field order, and
\* no write; it returns the fields with the values read.  GET /api/status on
\* registers 3, 1, 0, 1 and 123456 returns exactly those.
C9_ReadsFollowFieldMap ==
    \A c \in Conns :
        LET t  == tasks[c]
            fm == FieldMap(t.route)
        IN  (t.route \in ReadRoutes /\ t.state = "done" /\ t.faultAt = 0) =>
                /\ Len(t.issued) = Len(fm)
                /\ \A i \in DOMAIN fm : CallMatches(t.issued[i], fm[i])
                /\ dev = t.snapshot
                /\ t.response.status = 200
                /\ Len(t.response.content) = Len(fm)
                /\ \A i \in DOMAIN fm :
                      /\ t.response.content[i].field = fm[i][1]
                      /\ ValueMatches(t.response.content[i].value, fm[i], t.snapshot)
                /\ t.route = "GET /api/status" =>
                      t.response.content =
                         <<[field |-> "evse_state", value |-> 3],
                           [field |-> "external_charging_release_state", value |-> 1],
                           [field |-> "external_downgrading_state", value |-> 0],
                           [field |-> "phase_rotation", value |-> 1],
                           [field |-> "bootup_token", value |-> 123456]>>

\* a complete status read
C9_Witness ==
    \E c \in Conns :
        /\ tasks[c].route = "GET /api/status"
        /\ tasks[c].state = "done"
        /\ tasks[c].response.status = 200

====
